---- MODULE Spec2Model ----
(***************************************************************************)
(* A model of myst_nb/docutils_.py: the docutils parser for notebooks      *)
(* (Parser.parse) and the notebook renderer (DocutilsNbRenderer).          *)
(*                                                                         *)
(* The docutils tree is a sequence of nodes in the order they were         *)
(* appended; every node names its parent by position (0 is the document).  *)
(* Nodes are only ever appended to the node that is current, so the order  *)
(* of the sequence is the document order.                                  *)
(***************************************************************************)
EXTENDS Integers, Sequences, FiniteSets, TLC

VARIABLES
    pc,            \* position of Parser.parse
    settings,      \* document.settings: what the host configured
    inputstring,   \* what the reader gets from the source text
    md_config,     \* markdown parsing configuration
    nb_config,     \* notebook rendering configuration
    notebook,      \* the notebook (a sequence of cells)
    nb_renderer,   \* the loaded element renderer
    tokens,        \* mdit_tokens
    tok,           \* next token of the render loop
    doc,           \* the docutils tree
    current_node,  \* DocutilsRenderer.current_node
    log,           \* diagnostics (logger.error, create_warning)
    calls,         \* calls of the rendering capabilities
    updates,       \* calls of update_notebook
    writes,        \* calls of nb_renderer.write_file
    exc            \* exception that left parse, or "none"

vars == <<pc, settings, inputstring, md_config, nb_config, notebook, nb_renderer,
          tokens, tok, doc, current_node, log, calls, updates, writes, exc>>

\* ---------------------------------------------------------------- bounds

MaxOutputs == 2
MaxCells == 3

\* ---------------------------------------------------------------- data

MimeTypes == {"text/html", "image/png", "text/plain"}

\* Sequences without repetition over S.
RECURSIVE InjSeqs(_)
InjSeqs(S) ==
    {<<>>} \cup UNION {{<<x>> \o s : s \in InjSeqs(S \ {x})} : x \in S}

SeqsUpTo(S, n) == UNION {[1..k -> S] : k \in 0..n}

Range(s) == {s[k] : k \in 1..Len(s)}

\* An output is a NotebookNode; "fields" names the keys it holds.
Output(fields, output_type, name, text, data) ==
    [fields |-> fields, output_type |-> output_type, name |-> name,
     text |-> text, data |-> data]

Stream(name, text) == Output({"output_type", "name", "text"}, "stream", name, text, <<>>)

\* data is an insertion-ordered mapping: a sequence of <<key, payload>>.
Display(output_type, keys) ==
    Output({"output_type", "data"}, output_type, "", <<>>,
           [k \in 1..Len(keys) |-> <<keys[k], <<"payload", keys[k]>> >>])

ErrorOutput == Output({"output_type"}, "error", "", <<>>, <<>>)

Has(o, key) == key \in o.fields

DataKeys(o) == [k \in 1..Len(o.data) |-> o.data[k][1]]

DataGet(o, key) ==
    LET k == CHOOSE k \in 1..Len(o.data) : o.data[k][1] = key IN o.data[k][2]

Node(parent, kind, cell_index, mime_type, out) ==
    [parent |-> parent, kind |-> kind, cell_index |-> cell_index,
     mime_type |-> mime_type, out |-> out]

Diag(level, subtype, cell_index, out) ==
    [level |-> level, subtype |-> subtype, cell_index |-> cell_index, out |-> out]

\* ---------------------------------------------------------------- renderer

get_nb_config(config, key) == config[key]

\* coalesce_streams: consecutive stream outputs of one name become one output
\* holding the concatenated text, at the position of the first; a new sequence.
RECURSIVE coalesce_streams(_)
coalesce_streams(outputs) ==
    IF outputs = <<>> THEN <<>>
    ELSE LET h == Head(outputs)
             rest == coalesce_streams(Tail(outputs))
             isStream(o) == Has(o, "output_type") /\ o.output_type = "stream"
         IN IF rest # <<>> /\ isStream(h) /\ isStream(Head(rest))
               /\ h.name = Head(rest).name
            THEN <<[h EXCEPT !.text = h.text \o Head(rest).text]>> \o Tail(rest)
            ELSE <<h>> \o rest

\* create_warning(message, line, append_to, wtype, subtype): the reporter's
\* system_message is recorded and appended to append_to.
create_warning(st, subtype, append_to, cell_index, out) ==
    [st EXCEPT !.log = Append(@, Diag("warning", subtype, cell_index, out)),
               !.doc = Append(@, Node(append_to, "system_message", cell_index, "", out))]

\* One call of a rendering capability of the element renderer: it returns
\* nodes, which the caller appends to the current node, or it raises.
Capability(st, fn, kind, mime_type, payload, cur, cell_index, out, impl) ==
    LET call == [fn |-> fn, mime_type |-> mime_type, payload |-> payload,
                 cell_index |-> cell_index, out |-> out]
    IN IF impl.raises = fn
       THEN [st EXCEPT !.calls = Append(@, call), !.exc = "RenderError"]
       ELSE [st EXCEPT !.calls = Append(@, call),
                       !.doc = @ \o [k \in 1..impl.nodes_per_call |->
                                        Node(cur, kind, cell_index, mime_type, out)]]

\* Variant: the first key of the mapping that the priority list holds.
next_mime_type_by_mapping(mime_priority, output) ==
    IF mime_priority = <<>> THEN [exc |-> "StopIteration", mime_type |-> ""]
    ELSE IF ~Has(output, "data") THEN [exc |-> "KeyError", mime_type |-> ""]
    ELSE LET hits == {k \in 1..Len(output.data) : output.data[k][1] \in Range(mime_priority)}
         IN IF hits = {} THEN [exc |-> "StopIteration", mime_type |-> ""]
            ELSE [exc |-> "none",
                  mime_type |-> output.data[CHOOSE k \in hits : \A j \in hits : k <= j][1]]

\* next(x for x in mime_priority if x in output["data"])
RECURSIVE next_mime_type(_, _)
next_mime_type(mime_priority, output) ==
    IF mime_priority = <<>> THEN [exc |-> "StopIteration", mime_type |-> ""]
    ELSE IF ~Has(output, "data") THEN [exc |-> "KeyError", mime_type |-> ""]
    ELSE IF Head(mime_priority) \in Range(DataKeys(output))
         THEN [exc |-> "none", mime_type |-> Head(mime_priority)]
         ELSE next_mime_type(Tail(mime_priority), output)

\* Variant: an output without an acceptable representation is skipped silently.
render_display_silent(st, output, out, cur, cell_index, mime_priority, impl) ==
    LET r == next_mime_type(mime_priority, output) IN
    IF r.exc = "StopIteration" THEN st
    ELSE IF r.exc # "none" THEN [st EXCEPT !.exc = r.exc]
    ELSE LET withContainer ==
                 [st EXCEPT !.doc = Append(@, Node(cur, "mime_container", cell_index,
                                                   r.mime_type, out))]
         IN Capability(withContainer, "render_mime_type", "mime", r.mime_type,
                       DataGet(output, r.mime_type), Len(withContainer.doc),
                       cell_index, out, impl)

\* The display_data / execute_result branch of the output loop.
render_display(st, output, out, cur, cell_index, mime_priority, impl) ==
    LET r == next_mime_type(mime_priority, output) IN
    IF r.exc = "StopIteration"
    THEN create_warning(st, "mime_type", cur, cell_index, out)
    ELSE IF r.exc # "none" THEN [st EXCEPT !.exc = r.exc]
    ELSE LET withContainer ==
                 [st EXCEPT !.doc = Append(@, Node(cur, "mime_container", cell_index,
                                                   r.mime_type, out))]
         IN Capability(withContainer, "render_mime_type", "mime", r.mime_type,
                       DataGet(output, r.mime_type), Len(withContainer.doc),
                       cell_index, out, impl)

\* The stream branch of the output loop.
render_stream(st, output, out, cur, cell_index, impl) ==
    IF ~Has(output, "name") THEN [st EXCEPT !.exc = "AttributeError"]
    ELSE IF output.name = "stdout"
    THEN Capability(st, "render_stdout", "stdout", "", output.text, cur, cell_index, out, impl)
    ELSE IF output.name = "stderr"
    THEN Capability(st, "render_stderr", "stderr", "", output.text, cur, cell_index, out, impl)
    ELSE st

\* One iteration of "for output in outputs".
render_output(st, output, out, cur, cell_index, mime_priority, impl) ==
    IF ~Has(output, "output_type") THEN [st EXCEPT !.exc = "AttributeError"]
    ELSE IF output.output_type = "stream"
    THEN render_stream(st, output, out, cur, cell_index, impl)
    ELSE IF output.output_type = "error"
    THEN Capability(st, "render_error", "error", "", <<>>, cur, cell_index, out, impl)
    ELSE IF output.output_type \in {"display_data", "execute_result"}
    THEN render_display(st, output, out, cur, cell_index, mime_priority, impl)
    ELSE create_warning(st, "output_type", cur, cell_index, out)

\* Variant: the outputs are walked from the last to the first.
RECURSIVE render_outputs_backwards(_, _, _, _, _, _, _)
render_outputs_backwards(st, outputs, out, cur, cell_index, mime_priority, impl) ==
    IF out > Len(outputs) THEN st
    ELSE LET later == render_outputs_backwards(st, outputs, out + 1, cur, cell_index,
                                               mime_priority, impl)
         IN IF later.exc # "none" THEN later
            ELSE render_output(later, outputs[out], out, cur, cell_index, mime_priority, impl)

RECURSIVE render_outputs_from(_, _, _, _, _, _, _)
render_outputs_from(st, outputs, out, cur, cell_index, mime_priority, impl) ==
    IF out > Len(outputs) \/ st.exc # "none" THEN st
    ELSE render_outputs_from(
             render_output(st, outputs[out], out, cur, cell_index, mime_priority, impl),
             outputs, out + 1, cur, cell_index, mime_priority, impl)

CellOutputs(cell) == IF cell.has_outputs THEN cell.outputs ELSE <<>>

\* What the output loop walks: the cell's outputs, coalesced under merge_streams.
DispatchedOutputs(nb, config, cell_index) ==
    IF get_nb_config(config, "merge_streams")
    THEN coalesce_streams(CellOutputs(nb[cell_index + 1]))
    ELSE CellOutputs(nb[cell_index + 1])

\* Variant: the coalesced sequence is stored back into the cell.
render_nb_cell_code_outputs_in_place(st, cur, cell_index, config, impl) ==
    LET outputs == DispatchedOutputs(st.notebook, config, cell_index)
        stored == [st EXCEPT !.notebook[cell_index + 1].outputs = outputs]
    IN render_outputs_from(stored, outputs, 1, cur, cell_index,
                           get_nb_config(config, "mime_priority"), impl)

\* render_nb_cell_code_outputs, with the cell_output container current; the
\* result also holds the notebook, which the method only reads.
render_nb_cell_code_outputs(st, cur, cell_index, config, impl) ==
    render_outputs_from(st, DispatchedOutputs(st.notebook, config, cell_index), 1, cur,
                        cell_index, get_nb_config(config, "mime_priority"), impl)

render_nb_cell_code_source(st, cur, cell_index) ==
    [st EXCEPT !.doc = Append(@, Node(cur, "literal_block", cell_index, "", 0))]

\* Variant: only the underscore spelling of the tags is looked for.
render_nb_cell_code_one_spelling(st, token, cur, config, impl) ==
    LET cell_index == token.index
        tags == token.tags
        st1 == [st EXCEPT !.doc = Append(@, Node(cur, "cell_code", cell_index, "", 0))]
        cell_container == Len(st1.doc)
        st2 == IF (~get_nb_config(config, "remove_code_source"))
                  /\ "remove_input" \notin tags
               THEN LET withInput ==
                            [st1 EXCEPT !.doc = Append(@, Node(cell_container,
                                                  "cell_code_source", cell_index, "", 0))]
                    IN render_nb_cell_code_source(withInput, Len(withInput.doc), cell_index)
               ELSE st1
        has_outputs == CellOutputs(st.notebook[cell_index + 1])
    IN IF has_outputs # <<>>
          /\ (~get_nb_config(config, "remove_code_outputs"))
          /\ "remove_output" \notin tags
       THEN LET withOutput ==
                    [st2 EXCEPT !.doc = Append(@, Node(cell_container,
                                          "cell_code_output", cell_index, "", 0))]
            IN render_nb_cell_code_outputs(withOutput, Len(withOutput.doc), cell_index,
                                           config, impl)
       ELSE st2

\* Variant: the output container does not depend on the cell having outputs.
render_nb_cell_code_any_outputs(st, token, cur, config, impl) ==
    LET cell_index == token.index
        tags == token.tags
        st1 == [st EXCEPT !.doc = Append(@, Node(cur, "cell_code", cell_index, "", 0))]
        cell_container == Len(st1.doc)
        st2 == IF (~get_nb_config(config, "remove_code_source"))
                  /\ "remove_input" \notin tags
                  /\ "remove-input" \notin tags
               THEN LET withInput ==
                            [st1 EXCEPT !.doc = Append(@, Node(cell_container,
                                                  "cell_code_source", cell_index, "", 0))]
                    IN render_nb_cell_code_source(withInput, Len(withInput.doc), cell_index)
               ELSE st1
    IN IF (~get_nb_config(config, "remove_code_outputs"))
          /\ "remove_output" \notin tags
          /\ "remove-output" \notin tags
       THEN LET withOutput ==
                    [st2 EXCEPT !.doc = Append(@, Node(cell_container,
                                          "cell_code_output", cell_index, "", 0))]
            IN render_nb_cell_code_outputs(withOutput, Len(withOutput.doc), cell_index,
                                           config, impl)
       ELSE st2

\* render_nb_cell_code, with cur the current node.
render_nb_cell_code(st, token, cur, config, impl) ==
    LET cell_index == token.index
        tags == token.tags
        st1 == [st EXCEPT !.doc = Append(@, Node(cur, "cell_code", cell_index, "", 0))]
        cell_container == Len(st1.doc)
        st2 == IF (~get_nb_config(config, "remove_code_source"))
                  /\ "remove_input" \notin tags
                  /\ "remove-input" \notin tags
               THEN LET withInput ==
                            [st1 EXCEPT !.doc = Append(@, Node(cell_container,
                                                  "cell_code_source", cell_index, "", 0))]
                    IN render_nb_cell_code_source(withInput, Len(withInput.doc), cell_index)
               ELSE st1
        has_outputs == CellOutputs(st.notebook[cell_index + 1])
    IN IF has_outputs # <<>>
          /\ (~get_nb_config(config, "remove_code_outputs"))
          /\ "remove_output" \notin tags
          /\ "remove-output" \notin tags
       THEN LET withOutput ==
                    [st2 EXCEPT !.doc = Append(@, Node(cell_container,
                                          "cell_code_output", cell_index, "", 0))]
            IN render_nb_cell_code_outputs(withOutput, Len(withOutput.doc), cell_index,
                                           config, impl)
       ELSE st2

\* render_nb_cell_markdown: a pass-through to render_children, where a heading
\* closes the section that is current and opens a new one, which stays current.
render_nb_cell_markdown(st, token, cur) ==
    IF token.heading
    THEN LET parent == IF cur # 0 /\ st.doc[cur].kind = "section"
                       THEN st.doc[cur].parent ELSE cur
             section == Len(st.doc) + 1
         IN [st EXCEPT !.doc = @ \o <<Node(parent, "section", token.index, "", 0),
                                      Node(section, "title", token.index, "", 0)>>,
                       !.cur = section]
    ELSE [st EXCEPT !.doc = Append(@, Node(cur, "paragraph", token.index, "", 0))]

\* render_nb_cell_raw: nothing is rendered.
render_nb_cell_raw(st, token, cur) == st

\* ---------------------------------------------------------------- parser

MdParserConfig == [commonmark_only |-> FALSE]

NbParserConfig ==
    [remove_code_source |-> FALSE, remove_code_outputs |-> FALSE,
     merge_streams |-> FALSE,
     mime_priority |-> <<"text/html", "image/png", "text/plain">>,
     render_plugin |-> "default"]

\* create_myst_config: the configuration the settings hold, or a ValueError
\* (TypeError) of the validation.
create_myst_config(setting) ==
    IF setting.valid THEN [exc |-> "none", config |-> setting.config]
    ELSE [exc |-> "ValueError", config |-> setting.config]

\* notebook_to_tokens: one token per cell, in the order of the cells.
notebook_to_tokens(nb) ==
    [k \in 1..Len(nb) |->
        [type |-> nb[k].cell_type, index |-> k - 1, tags |-> nb[k].tags,
         heading |-> nb[k].heading]]

\* update_notebook: outputs used as read (off), or every code cell's outputs
\* replaced by those of an execution (force); cells are never reordered.
update_notebook(nb, mode, executed) ==
    IF mode = "off" THEN nb
    ELSE [k \in 1..Len(nb) |->
            IF nb[k].cell_type = "code"
            THEN [nb[k] EXCEPT !.has_outputs = TRUE, !.outputs = executed]
            ELSE nb[k]]

\* nbformat.writes(notebook).encode("utf-8")
nbformat_writes(nb) ==
    [encoding |-> "utf-8",
     cells |-> [k \in 1..Len(nb) |->
                  <<nb[k].cell_type, nb[k].tags,
                    IF nb[k].has_outputs THEN <<"outputs", nb[k].outputs>> ELSE <<>> >>]]

RenderState ==
    [doc |-> doc, log |-> log, calls |-> calls, exc |-> "none",
     notebook |-> notebook, cur |-> current_node]

\* What a handler of the render loop leaves behind; an exception leaves parse.
Rendered(st) ==
    /\ doc' = st.doc
    /\ log' = st.log
    /\ calls' = st.calls
    /\ notebook' = st.notebook
    /\ current_node' = st.cur
    /\ exc' = st.exc
    /\ IF st.exc = "none"
       THEN pc' = pc /\ tok' = tok + 1
       ELSE pc' = "raised" /\ tok' = tok
    /\ UNCHANGED <<settings, inputstring, md_config, nb_config, nb_renderer, tokens,
                   updates, writes>>

ConfigMd ==
    /\ pc = "config_md"
    /\ LET r == create_myst_config(settings.md) IN
       IF r.exc \in {"TypeError", "ValueError"}
       THEN /\ log' = Append(log, Diag("error", "myst configuration invalid", -1, 0))
            /\ md_config' = MdParserConfig
       ELSE /\ log' = log
            /\ md_config' = r.config
    /\ pc' = "config_nb"
    /\ UNCHANGED <<settings, inputstring, nb_config, notebook, nb_renderer, tokens, tok,
                   doc, current_node, calls, updates, writes, exc>>

\* Variant: the error of the notebook configuration is not caught.
ConfigNbFatal ==
    /\ pc = "config_nb"
    /\ LET r == create_myst_config(settings.nb) IN
       IF r.exc \in {"TypeError", "ValueError"}
       THEN nb_config' = nb_config /\ pc' = "raised" /\ exc' = r.exc
       ELSE nb_config' = r.config /\ pc' = "read" /\ exc' = exc
    /\ UNCHANGED <<settings, inputstring, md_config, notebook, nb_renderer, tokens, tok,
                   doc, current_node, log, calls, updates, writes>>

ConfigNb ==
    /\ pc = "config_nb"
    /\ LET r == create_myst_config(settings.nb) IN
       IF r.exc \in {"TypeError", "ValueError"}
       THEN /\ log' = Append(log, Diag("error", "myst-nb configuration invalid", -1, 0))
            /\ nb_config' = NbParserConfig
       ELSE /\ log' = log
            /\ nb_config' = r.config
    /\ pc' = "read"
    /\ UNCHANGED <<settings, inputstring, md_config, notebook, nb_renderer, tokens, tok,
                   doc, current_node, calls, updates, writes, exc>>

\* nb_reader.read(inputstring): either reader (read_as_md or not) returns the
\* notebook or raises; nothing in parse catches it.
Read ==
    /\ pc = "read"
    /\ IF inputstring.readable
       THEN notebook' = inputstring.notebook /\ pc' = "update" /\ exc' = exc
       ELSE notebook' = notebook /\ pc' = "raised" /\ exc' = "ReadError"
    /\ UNCHANGED <<settings, inputstring, md_config, nb_config, nb_renderer, tokens, tok,
                   doc, current_node, log, calls, updates, writes>>

ExecutionModes == {"off", "force"}

ExecutedOutputs ==
    <<Stream("stdout", <<"r">>), Display("execute_result", <<"text/plain">>)>>

\* update_notebook(notebook, ...): a blocking call; it returns the notebook to
\* render, or raises, and nothing in parse catches it.
UpdateNotebook ==
    /\ pc = "update"
    /\ \/ \E mode \in ExecutionModes :
            /\ notebook' = update_notebook(notebook, mode, ExecutedOutputs)
            /\ updates' = Append(updates, [mode |-> mode, at |-> "returned",
                                        notebook |-> notebook'])
            /\ pc' = "load"
            /\ exc' = exc
       \/ /\ notebook' = notebook
          /\ updates' = Append(updates, [mode |-> "force", at |-> "raised",
                                      notebook |-> notebook])
          /\ pc' = "raised"
          /\ exc' = "ExecutionError"
    /\ UNCHANGED <<settings, inputstring, md_config, nb_config, nb_renderer, tokens, tok,
                   doc, current_node, log, calls, writes>>

\* The element renderers an entry point can name.
Renderers ==
    {[nodes_per_call |-> 2, raises |-> "none"],
     [nodes_per_call |-> 1, raises |-> "render_error"]}

NoRenderer == [nodes_per_call |-> 0, raises |-> "none"]

\* load_renderer(renderer_name)(mdit_parser.renderer, logger)
LoadRenderer ==
    /\ pc = "load"
    /\ \/ \E impl \in Renderers :
            nb_renderer' = impl /\ pc' = "tokens" /\ exc' = exc
       \/ nb_renderer' = nb_renderer /\ pc' = "raised" /\ exc' = "EntryPointError"
    /\ UNCHANGED <<settings, inputstring, md_config, nb_config, notebook, tokens, tok,
                   doc, current_node, log, calls, updates, writes>>

NotebookToTokens ==
    /\ pc = "tokens"
    /\ tokens' = notebook_to_tokens(notebook)
    /\ tok' = 1
    /\ pc' = "render"
    /\ UNCHANGED <<settings, inputstring, md_config, nb_config, notebook, nb_renderer,
                   doc, current_node, log, calls, updates, writes, exc>>

RenderNbCellMarkdown ==
    /\ pc = "render" /\ tok <= Len(tokens)
    /\ tokens[tok].type = "markdown"
    /\ Rendered(render_nb_cell_markdown(RenderState, tokens[tok], current_node))

RenderNbCellRaw ==
    /\ pc = "render" /\ tok <= Len(tokens)
    /\ tokens[tok].type = "raw"
    /\ Rendered(render_nb_cell_raw(RenderState, tokens[tok], current_node))

RenderNbCellCode ==
    /\ pc = "render" /\ tok <= Len(tokens)
    /\ tokens[tok].type = "code"
    /\ Rendered(render_nb_cell_code(RenderState, tokens[tok], current_node,
                                    nb_config, nb_renderer))

\* Variant: the notebook is written while cells are still to be rendered.
WriteFileEarly ==
    /\ pc = "render"
    /\ writes' = Append(writes, [path |-> <<"rendered.ipynb">>,
                                 content |-> nbformat_writes(notebook),
                                 overwrite |-> TRUE])
    /\ pc' = "done"
    /\ UNCHANGED <<settings, inputstring, md_config, nb_config, notebook, nb_renderer,
                   tokens, tok, doc, current_node, log, calls, updates, exc>>

WriteFile ==
    /\ pc = "render" /\ tok > Len(tokens)
    /\ writes' = Append(writes, [path |-> <<"rendered.ipynb">>,
                                 content |-> nbformat_writes(notebook),
                                 overwrite |-> TRUE])
    /\ pc' = "done"
    /\ UNCHANGED <<settings, inputstring, md_config, nb_config, notebook, nb_renderer,
                   tokens, tok, doc, current_node, log, calls, updates, exc>>

\* ---------------------------------------------------------------- inputs

Cell(cell_type, heading, tags, has_outputs, outputs) ==
    [cell_type |-> cell_type, heading |-> heading, tags |-> tags,
     has_outputs |-> has_outputs, outputs |-> outputs]

CodeCell(tags, outputs) == Cell("code", FALSE, tags, TRUE, outputs)

\* The cells of the notebooks Parser.parse is run on.
Cells ==
    {Cell("markdown", TRUE, {}, FALSE, <<>>),
     Cell("markdown", FALSE, {}, FALSE, <<>>),
     Cell("raw", FALSE, {}, FALSE, <<>>),
     CodeCell({}, <<Stream("stdout", <<"a">>), Stream("stdout", <<"b">>),
                    Display("display_data", <<"text/plain", "image/png">>)>>),
     CodeCell({}, <<ErrorOutput, Output({"output_type"}, "display_data", "", <<>>, <<>>)>>),
     Cell("code", FALSE, {"remove_input"}, FALSE, <<>>)}

Notebooks == SeqsUpTo(Cells, MaxCells)

MdSettings == [valid : BOOLEAN, config : {[commonmark_only |-> TRUE]}]

NbSettings ==
    [valid : BOOLEAN, config : {[NbParserConfig EXCEPT !.merge_streams = TRUE]}]
    \cup {[valid |-> TRUE, config |-> [NbParserConfig EXCEPT !.remove_code_source = TRUE]]}

Init ==
    /\ pc = "config_md"
    /\ settings \in [md : MdSettings, nb : NbSettings]
    /\ inputstring \in [readable : {TRUE}, notebook : Notebooks]
                       \cup {[readable |-> FALSE, notebook |-> <<>>]}
    /\ md_config = MdParserConfig
    /\ nb_config = NbParserConfig
    /\ notebook = <<>>
    /\ nb_renderer = NoRenderer
    /\ tokens = <<>>
    /\ tok = 1
    /\ doc = <<>>
    /\ current_node = 0
    /\ log = <<>>
    /\ calls = <<>>
    /\ updates = <<>>
    /\ writes = <<>>
    /\ exc = "none"

Next ==
    \/ ConfigMd
    \/ ConfigNb
    \/ Read
    \/ UpdateNotebook
    \/ LoadRenderer
    \/ NotebookToTokens
    \/ RenderNbCellMarkdown
    \/ RenderNbCellRaw
    \/ RenderNbCellCode
    \/ WriteFile

Spec == Init /\ [][Next]_vars

\* ---------------------------------------------------------------- one code cell
\* The renderer on a notebook of one code cell, from the state in which
\* Parser.parse calls mdit_parser.renderer.render.

Outputs ==
    {Stream("stdout", <<"a">>), Stream("stderr", <<"x">>), Stream("stdlog", <<"l">>),
     ErrorOutput,
     Output({"output_type"}, "update_display_data", "", <<>>, <<>>),
     Output({"output_type"}, "display_data", "", <<>>, <<>>),
     Output({"name", "text"}, "", "stdout", <<"a">>, <<>>),
     Display("display_data", <<>>),
     Display("display_data", <<"image/png", "text/plain">>),
     Display("display_data", <<"text/plain", "image/png">>),
     Display("execute_result", <<"text/plain">>)}

TagSets == SUBSET {"remove_input", "remove-input", "remove_output", "remove-output", "hide"}

\* Every output sequence and mime priority, on an untagged cell.
DispatchInputs ==
    [cell : {CodeCell({}, outs) : outs \in SeqsUpTo(Outputs, MaxOutputs)},
     config : {[NbParserConfig EXCEPT !.merge_streams = m, !.mime_priority = p] :
                  m \in BOOLEAN, p \in InjSeqs(MimeTypes)}]

\* Every tag set and removal option, on a cell with or without outputs.
TagInputs ==
    [cell : {Cell("code", FALSE, tags, FALSE, <<>>) : tags \in TagSets}
            \cup {CodeCell(tags, outs) :
                     tags \in TagSets,
                     outs \in {<<>>, <<Stream("stdout", <<"a">>)>>,
                               <<ErrorOutput, Display("display_data", <<"text/plain">>)>>}},
     config : {[NbParserConfig EXCEPT !.remove_code_source = s, !.remove_code_outputs = o] :
                  s \in BOOLEAN, o \in BOOLEAN}]

InitCell ==
    /\ pc = "render"
    /\ \E input \in DispatchInputs \cup TagInputs :
          /\ settings = [md |-> [valid |-> TRUE, config |-> MdParserConfig],
                         nb |-> [valid |-> TRUE, config |-> input.config]]
          /\ inputstring = [readable |-> TRUE, notebook |-> <<input.cell>>]
          /\ nb_config = input.config
          /\ notebook = <<input.cell>>
          /\ tokens = notebook_to_tokens(<<input.cell>>)
          /\ updates = <<[mode |-> "off", at |-> "returned", notebook |-> <<input.cell>>]>>
    /\ md_config = MdParserConfig
    /\ nb_renderer \in Renderers
    /\ tok = 1
    /\ doc = <<>>
    /\ current_node = 0
    /\ log = <<>>
    /\ calls = <<>>
    /\ writes = <<>>
    /\ exc = "none"

NextCell == RenderNbCellCode

SpecCell == InitCell /\ [][NextCell]_vars

\* ---------------------------------------------------------------- properties

CodeCells == {ci \in 0..(Len(notebook) - 1) : notebook[ci + 1].cell_type = "code"}

NodesOf(kind, ci) == {n \in 1..Len(doc) : doc[n].kind = kind /\ doc[n].cell_index = ci}

RenderExceptions == {"AttributeError", "KeyError", "RenderError", "StopIteration"}

\* render_nb_cell_code has run on cell ci (to its end, or to an exception).
Handled(ci) ==
    /\ pc \in {"render", "done", "raised"}
    /\ ci < Len(tokens)
    /\ \/ tok > ci + 1
       \/ pc = "raised" /\ tok = ci + 1 /\ exc \in RenderExceptions

\* The sequence the output loop of cell ci walks.
Walked(ci) == DispatchedOutputs(notebook, nb_config, ci)

OutputsDispatched(ci) == Handled(ci) /\ NodesOf("cell_code_output", ci) # {}

IsDisplay(o) ==
    Has(o, "output_type") /\ o.output_type \in {"display_data", "execute_result"}

Matches(o) == {m \in Range(nb_config.mime_priority) : m \in Range(DataKeys(o))}

\* Output o is malformed, or the element renderer raises on it.
Raises(o) ==
    \/ ~Has(o, "output_type")
    \/ /\ o.output_type = "stream"
       /\ \/ ~Has(o, "name")
          \/ o.name = "stdout" /\ nb_renderer.raises = "render_stdout"
          \/ o.name = "stderr" /\ nb_renderer.raises = "render_stderr"
    \/ o.output_type = "error" /\ nb_renderer.raises = "render_error"
    \/ /\ IsDisplay(o)
       /\ \/ ~Has(o, "data") /\ nb_config.mime_priority # <<>>
          \/ Has(o, "data") /\ Matches(o) # {} /\ nb_renderer.raises = "render_mime_type"

\* The output loop of cell ci gets to output i.
Reached(ci, i) ==
    /\ OutputsDispatched(ci)
    /\ i \in 1..Len(Walked(ci))
    /\ \A k \in 1..(i - 1) : ~Raises(Walked(ci)[k])

Earliest(priority, keys, m) ==
    \E j \in 1..Len(priority) :
        /\ priority[j] = m
        /\ m \in keys
        /\ \A k \in 1..(j - 1) : priority[k] \notin keys

\* C1: the mime type of every mime container, and of every render_mime_type
\* call, is the earliest entry of mime_priority that is a key of the output's
\* data, whatever the order of the keys; every reached output with such an
\* entry gets its container.
C1_MimePriority ==
    \A ci \in CodeCells :
        /\ \A n \in NodesOf("mime_container", ci) :
              LET o == Walked(ci)[doc[n].out] IN
              /\ IsDisplay(o)
              /\ Earliest(nb_config.mime_priority, Range(DataKeys(o)), doc[n].mime_type)
              /\ \E c \in 1..Len(calls) :
                    calls[c] = [fn |-> "render_mime_type", mime_type |-> doc[n].mime_type,
                                payload |-> DataGet(o, doc[n].mime_type),
                                cell_index |-> ci, out |-> doc[n].out]
        /\ \A c \in 1..Len(calls) :
              calls[c].fn = "render_mime_type" /\ calls[c].cell_index = ci
              => \E n \in NodesOf("mime_container", ci) :
                    doc[n].out = calls[c].out /\ doc[n].mime_type = calls[c].mime_type
        /\ \A i \in 1..Len(Walked(ci)) :
              Reached(ci, i) /\ IsDisplay(Walked(ci)[i]) /\ Has(Walked(ci)[i], "data")
                 /\ Matches(Walked(ci)[i]) # {}
              => \E n \in NodesOf("mime_container", ci) : doc[n].out = i

C1_Witness ==
    /\ nb_config.mime_priority = <<"text/html", "image/png", "text/plain">>
    /\ \E n \in NodesOf("mime_container", 0) :
          /\ doc[n].mime_type = "image/png"
          /\ DataKeys(Walked(0)[doc[n].out]) = <<"text/plain", "image/png">>

\* ---- C2: an output without an acceptable representation

NoMatch(o) == IsDisplay(o) /\ Has(o, "data") /\ Matches(o) = {}

OutputNodes(ci, i) == {n \in 1..Len(doc) : doc[n].cell_index = ci /\ doc[n].out = i}

Without(s, i) == [k \in 1..(Len(s) - 1) |-> IF k < i THEN s[k] ELSE s[k + 1]]

Renumber(out, i) == IF out > i THEN out - 1 ELSE out

\* The tree without the leaf r, an element of output i.
DropNode(d, r, i) ==
    [k \in 1..(Len(d) - 1) |->
        LET n == IF k < r THEN d[k] ELSE d[k + 1]
        IN [n EXCEPT !.parent = IF @ > r THEN @ - 1 ELSE @, !.out = Renumber(@, i)]]

DropEntries(s, i) ==
    LET kept == SelectSeq(s, LAMBDA e : e.out # i)
    IN [k \in 1..Len(kept) |-> [kept[k] EXCEPT !.out = Renumber(@, i)]]

\* The output loop of cell 0 on the walked sequence without output i.
LoopWithout(i) ==
    LET container == CHOOSE n \in NodesOf("cell_code_output", 0) : TRUE
    IN render_outputs_from(
           [doc |-> SubSeq(doc, 1, container), log |-> <<>>, calls |-> <<>>,
            exc |-> "none", notebook |-> notebook, cur |-> current_node],
           Without(Walked(0), i), 1, container, 0, nb_config.mime_priority, nb_renderer)

OneDiagnostic(ci, i) ==
    Cardinality({k \in 1..Len(log) : log[k].cell_index = ci /\ log[k].out = i}) = 1

NoMimeRendering(ci, i) ==
    /\ \A n \in OutputNodes(ci, i) : doc[n].kind \notin {"mime_container", "mime"}
    /\ \A c \in 1..Len(calls) : ~(calls[c].cell_index = ci /\ calls[c].out = i)

\* The rest of the tree, the calls, the diagnostics and the outcome are those
\* of the sequence without output i.
AsIfAbsent(i) ==
    LET other == LoopWithout(i)
        mine == OutputNodes(0, i)
        rest == IF mine = {} THEN DropNode(Append(doc, doc[1]), Len(doc) + 1, i)
                ELSE DropNode(doc, CHOOSE n \in mine : TRUE, i)
    IN /\ Cardinality(mine) <= 1
       /\ rest = other.doc
       /\ DropEntries(calls, i) = other.calls
       /\ DropEntries(log, i) = other.log
       /\ exc = other.exc

\* C2 as claimed: one diagnostic and no document node for the output, no mime
\* container and no render_mime_type call, and the later outputs dispatched as
\* if the output were absent.
C2_NoNodeForUnmatched ==
    \A i \in 1..Len(Walked(0)) :
        Reached(0, i) /\ NoMatch(Walked(0)[i])
        => /\ OneDiagnostic(0, i)
           /\ OutputNodes(0, i) = {}
           /\ NoMimeRendering(0, i)
           /\ AsIfAbsent(i)

\* C2, amended: one diagnostic, whose system_message is the one node of the
\* output, appended to the cell_code_output container; no mime container and
\* no render_mime_type call; the later outputs are dispatched as if the output
\* were absent.
C2_UnmatchedSkipped ==
    \A i \in 1..Len(Walked(0)) :
        Reached(0, i) /\ NoMatch(Walked(0)[i])
        => /\ OneDiagnostic(0, i)
           /\ \E k \in 1..Len(log) :
                 log[k] = Diag("warning", "mime_type", 0, i)
           /\ \E n \in OutputNodes(0, i) :
                 /\ OutputNodes(0, i) = {n}
                 /\ doc[n].kind = "system_message"
                 /\ doc[n].parent \in NodesOf("cell_code_output", 0)
           /\ NoMimeRendering(0, i)
           /\ AsIfAbsent(i)

C2_Witness ==
    /\ nb_config.mime_priority = <<"text/html">>
    /\ Handled(0) /\ exc = "none"
    /\ Len(Walked(0)) = 2
    /\ NoMatch(Walked(0)[1])
    /\ Walked(0)[2] = Stream("stdout", <<"a">>)
    /\ \E c \in 1..Len(calls) : calls[c].fn = "render_stdout" /\ calls[c].out = 2
    /\ \E k \in 1..Len(log) : log[k].out = 1

\* ---- C3: a stream that is neither stdout nor stderr

UnsupportedStream(o) ==
    /\ Has(o, "output_type") /\ o.output_type = "stream"
    /\ Has(o, "name") /\ o.name \notin {"stdout", "stderr"}

\* C3 as claimed: every reached stream output of another name gets a
\* diagnostic, no node and no call of a rendering capability.
C3_UnsupportedStreamDiagnostic ==
    \A ci \in CodeCells : \A i \in 1..Len(Walked(ci)) :
        Reached(ci, i) /\ UnsupportedStream(Walked(ci)[i])
        => /\ \E k \in 1..Len(log) : log[k].cell_index = ci /\ log[k].out = i
           /\ \A n \in OutputNodes(ci, i) : doc[n].kind = "system_message"
           /\ \A c \in 1..Len(calls) : ~(calls[c].cell_index = ci /\ calls[c].out = i)

\* ---- C4, C9: what render_nb_cell_code emits

Tags(ci) == notebook[ci + 1].tags

SourceTagged(ci) == Tags(ci) \cap {"remove_input", "remove-input"} # {}

OutputTagged(ci) == Tags(ci) \cap {"remove_output", "remove-output"} # {}

Untouched(ci) ==
    /\ \A c \in 1..Len(calls) : calls[c].cell_index # ci
    /\ \A k \in 1..Len(log) : log[k].cell_index # ci

\* C4: a handled code cell with a source-suppressing tag has no
\* cell_code_source container, and one with an output-suppressing tag has no
\* cell_code_output container and none of its outputs dispatched, whatever the
\* configuration and the outputs.
C4_TagOverride ==
    \A ci \in CodeCells :
        Handled(ci)
        => /\ SourceTagged(ci) => NodesOf("cell_code_source", ci) = {}
           /\ OutputTagged(ci)
              => /\ NodesOf("cell_code_output", ci) = {}
                 /\ Untouched(ci)
                 /\ \A n \in 1..Len(doc) : doc[n].cell_index = ci => doc[n].out = 0

C4_Witness ==
    /\ Handled(0)
    /\ Tags(0) = {"remove-input", "remove_output"}
    /\ ~nb_config.remove_code_source /\ ~nb_config.remove_code_outputs
    /\ Len(CellOutputs(notebook[1])) = 2
    /\ NodesOf("cell_code", 0) # {}

\* C9: a handled code cell whose outputs are to be shown and that has none
\* (an empty or a missing list) has its cell container, its source container
\* when the source is shown, no cell_code_output container, and no rendering
\* capability called for it.
C9_NoOutputsNoContainer ==
    \A ci \in CodeCells :
        Handled(ci) /\ ~nb_config.remove_code_outputs /\ ~OutputTagged(ci)
           /\ CellOutputs(notebook[ci + 1]) = <<>>
        => /\ Cardinality(NodesOf("cell_code", ci)) = 1
           /\ NodesOf("cell_code_output", ci) = {}
           /\ Untouched(ci)
           /\ \A n \in NodesOf("cell_code_source", ci) :
                 doc[n].parent \in NodesOf("cell_code", ci)
           /\ Cardinality(NodesOf("cell_code_source", ci))
                 = IF nb_config.remove_code_source \/ SourceTagged(ci) THEN 0 ELSE 1
           /\ exc = "none"

C9_Witness ==
    /\ Handled(0) /\ ~nb_config.remove_code_outputs /\ ~OutputTagged(0)
    /\ ~notebook[1].has_outputs
    /\ NodesOf("cell_code_source", 0) # {}
    /\ NodesOf("cell_code_output", 0) = {}

\* ---- C5: order of the tree

CellContainers == {n \in 1..Len(doc) : doc[n].kind = "cell_code"}

\* Node n was produced for output o.
KindFits(n, o) ==
    /\ Has(o, "output_type")
    /\ CASE doc[n].kind = "stdout" -> o.output_type = "stream" /\ o.name = "stdout"
         [] doc[n].kind = "stderr" -> o.output_type = "stream" /\ o.name = "stderr"
         [] doc[n].kind = "error" -> o.output_type = "error"
         [] doc[n].kind \in {"mime_container", "mime"} -> IsDisplay(o)
         [] doc[n].kind = "system_message" -> o.output_type \notin {"stream", "error"}
         [] OTHER -> FALSE

CellOrder ==
    /\ \A m, n \in CellContainers : m < n => doc[m].cell_index < doc[n].cell_index
    /\ \A ci \in CodeCells : Handled(ci) => Cardinality(NodesOf("cell_code", ci)) = 1

SourceBeforeOutput ==
    \A ci \in CodeCells :
        \A s \in NodesOf("cell_code_source", ci) \cup NodesOf("cell_code_output", ci) :
            /\ doc[s].parent \in NodesOf("cell_code", ci)
            /\ doc[s].kind = "cell_code_source"
               => \A o \in NodesOf("cell_code_output", ci) : s < o

OutputOrder ==
    \A ci \in CodeCells :
        \A n \in 1..Len(doc) :
            doc[n].cell_index = ci /\ doc[n].out > 0
            => /\ doc[n].out <= Len(Walked(ci))
               /\ KindFits(n, Walked(ci)[doc[n].out])
               /\ \/ doc[n].parent \in NodesOf("cell_code_output", ci)
                  \/ /\ doc[doc[n].parent].kind = "mime_container"
                     /\ doc[doc[n].parent].out = doc[n].out
                     /\ doc[doc[n].parent].parent \in NodesOf("cell_code_output", ci)
               /\ \A m \in 1..(n - 1) :
                     doc[m].cell_index = ci => doc[m].out <= doc[n].out

\* C5 as claimed: the cell containers come in cell order, each a sibling of the
\* previous one; the source container precedes the output container; the
\* nodes of the outputs come in the order of the walked sequence.
C5_SiblingContainers ==
    /\ CellOrder
    /\ \A m, n \in CellContainers : doc[m].parent = doc[n].parent
    /\ SourceBeforeOutput
    /\ OutputOrder

\* C5, amended: the cell containers come in cell order, each a child of the
\* document or of the section a heading of an earlier markdown cell opened,
\* never inside another cell container; the source container precedes the
\* output container; the nodes of the outputs come in the order of the
\* walked sequence.
C5_TreeOrder ==
    /\ CellOrder
    /\ \A n \in CellContainers :
          \/ doc[n].parent = 0
          \/ doc[doc[n].parent].kind = "section" /\ doc[doc[n].parent].parent = 0
    /\ SourceBeforeOutput
    /\ OutputOrder

C5_Witness ==
    /\ pc = "done"
    /\ Len(notebook) = 3
    /\ \E m, n \in CellContainers :
          /\ doc[m].cell_index = 0 /\ doc[n].cell_index = 2
          /\ doc[m].parent = 0 /\ doc[n].parent # 0
          /\ NodesOf("cell_code_source", 2) # {}
          /\ Cardinality({k \in 1..Len(doc) : doc[k].cell_index = 2 /\ doc[k].out > 0}) > 3

\* ---- C6: exceptions

\* C6 as claimed: no exception leaves Parser.parse.
C6_NoException == pc # "raised" /\ exc = "none"

\* ---- C7: the steps of Parser.parse

Returned == updates[1].notebook

\* C7: update_notebook is called at most once, and has returned before any
\* cell is tokenized or rendered; tokens, calls and nodes come from the
\* notebook it returned; write_file is called at most once, after the last
\* cell was rendered, with ["rendered.ipynb"], overwrite=True and the
\* serialization of that notebook; a run that returns has made both calls.
C7_StepOrder ==
    /\ Len(updates) <= 1 /\ Len(writes) <= 1
    /\ pc \in {"config_md", "config_nb", "read", "update"}
       => updates = <<>> /\ tokens = <<>> /\ doc = <<>> /\ calls = <<>> /\ writes = <<>>
    /\ (tokens # <<>> \/ doc # <<>> \/ calls # <<>> \/ writes # <<>>
           \/ pc \in {"load", "tokens", "render", "done"})
       => /\ Len(updates) = 1 /\ updates[1].at = "returned"
          /\ tokens \in {<<>>, notebook_to_tokens(Returned)}
          /\ \A n \in 1..Len(doc) : doc[n].cell_index < Len(Returned)
          /\ \A n \in 1..Len(doc) :
                doc[n].kind = "cell_code_output"
                => CellOutputs(Returned[doc[n].cell_index + 1]) # <<>>
          /\ \A c \in 1..Len(calls) :
                LET o == DispatchedOutputs(Returned, nb_config, calls[c].cell_index)[calls[c].out]
                IN calls[c].payload = IF calls[c].fn = "render_mime_type"
                                      THEN DataGet(o, calls[c].mime_type)
                                      ELSE o.text
    /\ pc \in {"load", "tokens"} => doc = <<>> /\ calls = <<>> /\ writes = <<>>
    /\ writes # <<>>
       => /\ pc = "done"
          /\ Len(tokens) = Len(Returned) /\ tok = Len(tokens) + 1
          /\ writes[1] = [path |-> <<"rendered.ipynb">>,
                          content |-> nbformat_writes(Returned),
                          overwrite |-> TRUE]
    /\ pc = "done" => Len(writes) = 1

C7_Witness ==
    /\ pc = "done"
    /\ updates[1].mode = "force"
    /\ Returned # inputstring.notebook
    /\ Len(Returned) = 2
    /\ \E c \in 1..Len(calls) : calls[c].cell_index = 1 /\ calls[c].payload = <<"r">>
    /\ Len(writes) = 1

\* ---- C8: rendering reads the notebook

\* C8: from the return of update_notebook on, the notebook is the one it
\* returned: cells, order, and every cell's outputs; what write_file gets
\* holds these outputs, uncoalesced.
C8_NotebookReadOnly ==
    updates # <<>> /\ updates[1].at = "returned"
    => /\ notebook = Returned
       /\ \A w \in 1..Len(writes) :
             /\ Len(writes[w].content.cells) = Len(Returned)
             /\ \A k \in 1..Len(Returned) :
                   Returned[k].has_outputs
                   => writes[w].content.cells[k][3] = <<"outputs", Returned[k].outputs>>

C8_Witness ==
    /\ pc = "done"
    /\ nb_config.merge_streams
    /\ \E c \in 1..Len(calls) :
          /\ calls[c].fn = "render_stdout"
          /\ calls[c].payload = <<"a", "b">>
          /\ Len(notebook[calls[c].cell_index + 1].outputs) = 3
          /\ Len(writes[1].content.cells[calls[c].cell_index + 1][3][2]) = 3

\* ---- C10: configuration errors

Errors(subtype) == Cardinality({k \in 1..Len(log) : log[k].subtype = subtype})

\* C10: an invalid markdown or notebook configuration gives one diagnostic and
\* the default configuration, a valid one is used as configured, each
\* whatever the other is; no exception leaves parse from the two steps.
C10_ConfigRecovered ==
    LET past_md == pc # "config_md"
        past_nb == pc \notin {"config_md", "config_nb"}
    IN /\ Errors("myst configuration invalid")
             = IF past_md /\ ~settings.md.valid THEN 1 ELSE 0
       /\ Errors("myst-nb configuration invalid")
             = IF past_nb /\ ~settings.nb.valid THEN 1 ELSE 0
       /\ past_md => md_config = IF settings.md.valid THEN settings.md.config
                                 ELSE MdParserConfig
       /\ past_nb => nb_config = IF settings.nb.valid THEN settings.nb.config
                                 ELSE NbParserConfig
       /\ exc \notin {"TypeError", "ValueError"}
       /\ pc = "raised" => past_nb

C10_Witness ==
    /\ pc = "done"
    /\ ~settings.md.valid /\ ~settings.nb.valid
    /\ settings.nb.config # NbParserConfig
    /\ md_config = MdParserConfig /\ nb_config = NbParserConfig
    /\ Len(SelectSeq(log, LAMBDA d : d.level = "error")) = 2
    /\ calls # <<>>
    /\ Len(writes) = 1

====
